---------------------------- MODULE Spec2Model ----------------------------
(***************************************************************************)
(* A model of ghcc/utils/run.py: run_command (one external command run     *)
(* with its combined output redirected into a temporary file, a timeout    *)
(* and an ignore_errors mode), error_wrapper and kill_proc_tree.           *)
(***************************************************************************)
EXTENDS Integers, Sequences, FiniteSets, TLC

(***************************************************************************)
(* Bounds of the model.                                                    *)
(***************************************************************************)
\* number of run_command invocations that may be in flight together
NumRuns == 2
\* number of write calls one child performs at most
MaxWrites == 3
\* number of process identifiers of the process table
MaxProcs == 3

(***************************************************************************)
(* Program constants.                                                      *)
(***************************************************************************)
MAX_OUTPUT_LENGTH == 8192

\* the special return code of a timed out command (ignore_errors mode)
TIMEOUT_RETURN_CODE == -32768

\* stop_after_attempt(6) of the retry decorator, which is commented out
STOP_AFTER_ATTEMPT == 6

\* b"\n*** (remaining output truncated) ***"
TRUNCATION_SUFFIX ==
    << 10, 42, 42, 42, 32, 40, 114, 101, 109, 97, 105, 110, 105, 110, 103, 32,
       111, 117, 116, 112, 117, 116, 32, 116, 114, 117, 110, 99, 97, 116, 101,
       100, 41, 32, 42, 42, 42 >>

(***************************************************************************)
(* Optional values: None is the empty tuple, a present value x is <<x>>.   *)
(***************************************************************************)
None == << >>
Some(x) == << x >>

Runs == 1 .. NumRuns

\* the values of the args parameter (opaque command lines)
Commands == { "printf hello", "sh -c 'exit 3'" }

\* return codes of a child that exited: 0, positive codes, -N for signal N
ExitCodes == { 0, 1, 3, 255, -9 }

\* sizes of the chunks a child writes to its standard output
ChunkSizes == { 1, MAX_OUTPUT_LENGTH - 1 }

\* the byte the child of invocation r writes at offset i of its output
ChildByte(r, i) == (i + 64 * r) % 256

ChildChunk(r, from, n) == [ i \in 1 .. n |-> ChildByte(r, from + i) ]

VARIABLES
    pc,        \* pc[r]: position of invocation r in run_command
    call,      \* call[r]: the arguments of invocation r
    files,     \* the temporary files created so far, in order of creation
    tmpfile,   \* tmpfile[r]: the file f of the with block of invocation r
    child,     \* child[r]: the child process of invocation r
    attempts,  \* attempts[r]: number of subprocess.run calls of invocation r
    outcome,   \* outcome[r]: how invocation r ended (returned or raised)
    proc,      \* the OS process table
    kill,      \* the kill_proc_tree call
    ann        \* an error handed to error_wrapper, and str() of the result

runVars == << pc, call, files, tmpfile, child, attempts, outcome >>
killVars == << proc, kill >>
vars == << pc, call, files, tmpfile, child, attempts, outcome, proc, kill, ann >>

(***************************************************************************)
(* error_wrapper                                                           *)
(***************************************************************************)
\* the exception classes subprocess.run raises
WrappedKinds == { "CalledProcessError", "TimeoutExpired" }

\* an error_wrapper that replaces the class of every exception, and makes a
\* CalledProcessError of it
error_wrapperEvery(err) ==
    [ err EXCEPT !.kind = "CalledProcessError", !.annotated = TRUE ]

\* err.__class__ becomes a subclass of its own class that overrides __str__:
\* isinstance checks against the original class still succeed
error_wrapper(err) ==
    IF err.kind \notin WrappedKinds
        THEN err
        ELSE [ err EXCEPT !.annotated = TRUE ]

CalledProcessError(cmd, returncode) ==
    [ kind |-> "CalledProcessError", cmd |-> cmd, returncode |-> Some(returncode),
      output |-> None, annotated |-> FALSE ]

TimeoutExpired(cmd) ==
    [ kind |-> "TimeoutExpired", cmd |-> cmd, returncode |-> None,
      output |-> None, annotated |-> FALSE ]

\* kinds of OSError: a transient one (EAGAIN) and a permanent one (ENOENT)
OSErrorKinds == { "BlockingIOError", "FileNotFoundError" }

OSErrorOf(kind, cmd) ==
    [ kind |-> kind, cmd |-> cmd, returncode |-> None,
      output |-> None, annotated |-> FALSE ]

\* no error has been handed to error_wrapper
NoAnn == [ pc |-> "idle", given |-> None, err |-> None, str |-> None ]

(***************************************************************************)
(* CommandResult                                                           *)
(***************************************************************************)
CommandResult(command, return_code, captured_output) ==
    [ command |-> command, return_code |-> return_code,
      captured_output |-> captured_output ]

Returned(result) == [ how |-> "returned", result |-> result ]
Raised(err) == [ how |-> "raised", error |-> err ]
NoOutcome == [ how |-> "none" ]

(***************************************************************************)
(* The temporary file of an invocation.                                    *)
(***************************************************************************)
NoFile == 0

FilesOf(r) == { f \in 1 .. Len(files) : files[f].owner = r }

\* tempfile.TemporaryFile(): a new file, open, empty
NewFile(r) == [ owner |-> r, open |-> TRUE, content |-> << >> ]

\* leaving the with block closes the file, which removes it
CloseFile(fs, f) == [ fs EXCEPT ![f].open = FALSE, ![f].content = << >> ]

\* f.seek(0); f.read(n)
ReadUpTo(content, n) ==
    IF Len(content) <= n THEN content ELSE SubSeq(content, 1, n)

\* a read that stops at MAX_OUTPUT_LENGTH bytes
ReadAllTruncated(content) == ReadUpTo(content, MAX_OUTPUT_LENGTH)

\* f.seek(0); f.read()
ReadAll(content) == content

\* a truncation that keeps one byte too many
FailureOutputOffByOne(content) ==
    LET output == ReadUpTo(content, MAX_OUTPUT_LENGTH + 1)
    IN  IF Len(output) > MAX_OUTPUT_LENGTH
            THEN output \o TRUNCATION_SUFFIX
            ELSE output

\* a truncation that starts at MAX_OUTPUT_LENGTH bytes instead of above it
FailureOutputFromLimit(content) ==
    LET output == ReadUpTo(content, MAX_OUTPUT_LENGTH + 1)
    IN  IF Len(output) >= MAX_OUTPUT_LENGTH
            THEN SubSeq(output, 1, MAX_OUTPUT_LENGTH) \o TRUNCATION_SUFFIX
            ELSE output

\* the output attached to a failure: at most MAX_OUTPUT_LENGTH bytes followed
\* by the truncation text when the file holds more
FailureOutput(content) ==
    LET output == ReadUpTo(content, MAX_OUTPUT_LENGTH + 1)
    IN  IF Len(output) > MAX_OUTPUT_LENGTH
            THEN SubSeq(output, 1, MAX_OUTPUT_LENGTH) \o TRUNCATION_SUFFIX
            ELSE output


(***************************************************************************)
(* run_command                                                             *)
(***************************************************************************)
NoCall == [ args |-> "", return_output |-> FALSE, ignore_errors |-> FALSE,
            timeout |-> FALSE ]

\* nbytes counts the bytes the child has written, code is its exit code
NoChild == [ state |-> "none", stdout |-> NoFile, writes |-> 0, nbytes |-> 0,
            code |-> None ]

\* a success path that hands the output back whether asked for or not
SuccessResultAlwaysOutput(args, return_output, returncode, content) ==
    CommandResult(args, returncode, Some(ReadAll(content)))

\* lines 102-105: the value returned when subprocess.run returned normally
SuccessResult(args, return_output, returncode, content) ==
    IF return_output \/ returncode # 0
        THEN CommandResult(args, returncode, Some(ReadAll(content)))
        ELSE CommandResult(args, returncode, None)

\* a timeout reported with the return code of a killed process
FailureReturnCodeNoSentinel(e) ==
    IF e.kind = "CalledProcessError" THEN e.returncode[1] ELSE -9

\* every failure reported with the return code of a timeout
FailureReturnCodeAlwaysSentinel(e) == TIMEOUT_RETURN_CODE

\* line 97: the return code reported in ignore_errors mode
FailureReturnCode(e) ==
    IF e.kind = "CalledProcessError" THEN e.returncode[1] ELSE TIMEOUT_RETURN_CODE

\* an except clause that raises whatever ignore_errors is
HandleFailureAlwaysRaise(e, args, ignore_errors, content) ==
    Raised(error_wrapper([ e EXCEPT !.output = Some(FailureOutput(content)) ]))

\* lines 91-101: the except clause for CalledProcessError and TimeoutExpired
HandleFailure(e, args, ignore_errors, content) ==
    LET output == FailureOutput(content)
    IN  IF ignore_errors
            THEN Returned(CommandResult(args, FailureReturnCode(e), Some(output)))
            ELSE Raised(error_wrapper([ e EXCEPT !.output = Some(output) ]))

\* an OSError raised by subprocess.run is caught by no except clause: it
\* leaves run_command through the with block, whatever ignore_errors is
HandleOSError(e, args, ignore_errors) == Raised(e)

\* leaving the with block, by return or by exception
LeaveWith(r) == CloseFile(files, tmpfile[r])

\* run_command is called; the with statement creates the temporary file
Call(r, args, return_output, ignore_errors, timeout) ==
    /\ pc[r] = "idle"
    /\ call' = [ call EXCEPT ![r] =
                   [ args |-> args, return_output |-> return_output,
                     ignore_errors |-> ignore_errors, timeout |-> timeout ] ]
    /\ files' = Append(files, NewFile(r))
    /\ tmpfile' = [ tmpfile EXCEPT ![r] = Len(files) + 1 ]
    /\ pc' = [ pc EXCEPT ![r] = "opened" ]
    /\ UNCHANGED << child, attempts, outcome, proc, kill, ann >>

\* a child started on the temporary file created last, whoever created it
SpawnOnLastFile(r) ==
    /\ pc[r] = "opened"
    /\ attempts' = [ attempts EXCEPT ![r] = @ + 1 ]
    /\ child' = [ child EXCEPT ![r].state = "running", ![r].stdout = Len(files) ]
    /\ pc' = [ pc EXCEPT ![r] = "running" ]
    /\ UNCHANGED << call, files, tmpfile, outcome, proc, kill, ann >>

\* subprocess.run starts the child with stdout and stderr set to the file
Spawn(r) ==
    /\ pc[r] = "opened"
    /\ attempts' = [ attempts EXCEPT ![r] = @ + 1 ]
    /\ child' = [ child EXCEPT ![r].state = "running", ![r].stdout = tmpfile[r] ]
    /\ pc' = [ pc EXCEPT ![r] = "running" ]
    /\ UNCHANGED << call, files, tmpfile, outcome, proc, kill, ann >>

\* an OSError that leaves run_command without the file being closed
SpawnErrorLeak(r, kind) ==
    /\ pc[r] = "opened"
    /\ attempts' = [ attempts EXCEPT ![r] = @ + 1 ]
    /\ outcome' = [ outcome EXCEPT ![r] =
                      Raised(OSErrorOf(kind, call[r].args)) ]
    /\ pc' = [ pc EXCEPT ![r] = "done" ]
    /\ UNCHANGED << call, files, tmpfile, child, proc, kill, ann >>

\* an OSError of the spawn that is retried, as the decorator would do
SpawnErrorRetry(r, kind) ==
    /\ pc[r] = "opened"
    /\ attempts' = [ attempts EXCEPT ![r] = @ + 1 ]
    /\ IF attempts[r] + 1 < STOP_AFTER_ATTEMPT
           THEN UNCHANGED << pc, outcome, files >>
           ELSE /\ outcome' = [ outcome EXCEPT ![r] =
                                 Raised(OSErrorOf(kind, call[r].args)) ]
                /\ files' = LeaveWith(r)
                /\ pc' = [ pc EXCEPT ![r] = "done" ]
    /\ UNCHANGED << call, tmpfile, child, proc, kill, ann >>

\* subprocess.run fails to start the child with an OSError
SpawnError(r, kind) ==
    /\ pc[r] = "opened"
    /\ attempts' = [ attempts EXCEPT ![r] = @ + 1 ]
    /\ outcome' = [ outcome EXCEPT ![r] =
                      HandleOSError(OSErrorOf(kind, call[r].args), call[r].args,
                                    call[r].ignore_errors) ]
    /\ files' = LeaveWith(r)
    /\ pc' = [ pc EXCEPT ![r] = "done" ]
    /\ UNCHANGED << call, tmpfile, child, proc, kill, ann >>

\* the running child writes n bytes to its standard output or error
ChildWrite(r, n) ==
    /\ pc[r] = "running"
    /\ child[r].state = "running"
    /\ child[r].writes < MaxWrites
    /\ LET f == child[r].stdout
       IN  files' = [ files EXCEPT ![f].content =
                        @ \o ChildChunk(r, child[r].nbytes, n) ]
    /\ child' = [ child EXCEPT ![r].writes = @ + 1, ![r].nbytes = @ + n ]
    /\ UNCHANGED << pc, call, tmpfile, attempts, outcome, proc, kill, ann >>

\* the child exits with code 0: subprocess.run returns, lines 102-105
RunReturns(r) ==
    /\ pc[r] = "running"
    /\ child[r].state = "running"
    /\ child' = [ child EXCEPT ![r].state = "exited", ![r].code = Some(0) ]
    /\ outcome' = [ outcome EXCEPT ![r] =
                      Returned(SuccessResult(call[r].args, call[r].return_output, 0,
                                             files[tmpfile[r]].content)) ]
    /\ files' = LeaveWith(r)
    /\ pc' = [ pc EXCEPT ![r] = "done" ]
    /\ UNCHANGED << call, tmpfile, attempts, proc, kill, ann >>

\* the child exits with a nonzero code: check=True raises CalledProcessError
RunCalledProcessError(r, code) ==
    /\ pc[r] = "running"
    /\ child[r].state = "running"
    /\ code # 0
    /\ child' = [ child EXCEPT ![r].state = "exited", ![r].code = Some(code) ]
    /\ outcome' = [ outcome EXCEPT ![r] =
                      HandleFailure(CalledProcessError(call[r].args, code),
                                    call[r].args, call[r].ignore_errors,
                                    files[tmpfile[r]].content) ]
    /\ files' = LeaveWith(r)
    /\ pc' = [ pc EXCEPT ![r] = "done" ]
    /\ UNCHANGED << call, tmpfile, attempts, proc, kill, ann >>

\* the timeout elapses first: subprocess.run kills the child, waits for it
\* and raises TimeoutExpired
RunTimeoutExpired(r) ==
    /\ pc[r] = "running"
    /\ child[r].state = "running"
    /\ call[r].timeout
    /\ child' = [ child EXCEPT ![r].state = "killed" ]
    /\ outcome' = [ outcome EXCEPT ![r] =
                      HandleFailure(TimeoutExpired(call[r].args),
                                    call[r].args, call[r].ignore_errors,
                                    files[tmpfile[r]].content) ]
    /\ files' = LeaveWith(r)
    /\ pc' = [ pc EXCEPT ![r] = "done" ]
    /\ UNCHANGED << call, tmpfile, attempts, proc, kill, ann >>

RunStep(r) ==
    \/ \E args \in Commands, ro \in BOOLEAN, ie \in BOOLEAN, to \in BOOLEAN :
          Call(r, args, ro, ie, to)
    \/ Spawn(r)
    \/ \E kind \in OSErrorKinds : SpawnError(r, kind)
    \/ \E n \in ChunkSizes : ChildWrite(r, n)
    \/ RunReturns(r)
    \/ \E code \in ExitCodes : RunCalledProcessError(r, code)
    \/ RunTimeoutExpired(r)

(***************************************************************************)
(* The process table before any kill_proc_tree call.                       *)
(***************************************************************************)
Pids == 1 .. MaxProcs

\* the kill_proc_tree call before it is made.  children is the list the call
\* enumerated, idx its loop index, signalled the processes it sent SIGKILL,
\* result how the call ended, found whether psutil.Process(pid) found the
\* process
NoKill ==
    [ pc |-> "idle", pid |-> 0, including_parent |-> FALSE, children |-> << >>,
      idx |-> 0, signalled |-> { }, result |-> "none", found |-> FALSE ]

\* a process table entry.  state is "free" (never used), "running", "killed"
\* (SIGKILL sent, not yet gone) or "dead" (exited, no longer in the table);
\* ppid is the process that spawned it (0: none of the table), and a sleeper
\* neither exits nor spawns by itself
NoProc == [ state |-> "free", ppid |-> 0, sleeper |-> FALSE ]

RunInit ==
    /\ pc = [ r \in Runs |-> "idle" ]
    /\ call = [ r \in Runs |-> NoCall ]
    /\ files = << >>
    /\ tmpfile = [ r \in Runs |-> NoFile ]
    /\ child = [ r \in Runs |-> NoChild ]
    /\ attempts = [ r \in Runs |-> 0 ]
    /\ outcome = [ r \in Runs |-> NoOutcome ]

\* one run_command invocation at a time
Init ==
    /\ RunInit
    /\ proc = [ p \in Pids |-> NoProc ]
    /\ kill = NoKill
    /\ ann = NoAnn

Next == RunStep(1)

Spec == Init /\ [][Next]_vars

\* run_command called by concurrent callers, each with return_output,
\* ignore_errors and a timeout, on a command that writes byte after byte and
\* exits with 0 or with 3 or runs out of time
ConcStep(r) ==
    \/ \E args \in Commands : Call(r, args, TRUE, TRUE, TRUE)
    \/ Spawn(r)
    \/ ChildWrite(r, 1)
    \/ RunReturns(r)
    \/ RunCalledProcessError(r, 3)
    \/ RunTimeoutExpired(r)

ConcNext == \E r \in Runs : ConcStep(r)

ConcSpec == Init /\ [][ConcNext]_vars

(***************************************************************************)
(* The process table as psutil sees it.                                    *)
(***************************************************************************)
\* psutil finds the process: it is in the process table
InTable(p) == proc[p].state \in { "running", "killed" }

\* the children of the processes of S: once a process has gone its children
\* belong to init, and psutil no longer lists them below it
ChildrenOf(S) ==
    { q \in Pids : /\ InTable(q)
                   /\ proc[q].ppid \in S \cap Pids
                   /\ InTable(proc[q].ppid) }

RECURSIVE Reach(_)
Reach(S) ==
    LET T == S \cup ChildrenOf(S)
    IN  IF T = S THEN S ELSE Reach(T)

\* parent.children(): the direct children only
DirectChildren(pid) == ChildrenOf({ pid })

\* parent.children(recursive=True)
Descendants(pid) == Reach({ pid }) \ { pid }

\* the lists without repetition of the members of S
ListsOf(S) ==
    { l \in [ 1 .. Cardinality(S) -> S ] : \A i, j \in DOMAIN l : i # j => l[i] # l[j] }

Range(l) == { l[i] : i \in DOMAIN l }

\* the table after process p has gone
Remove(p) == [ proc EXCEPT ![p].state = "dead" ]

\* the call is under way.  What the processes did by themselves before the
\* call is part of the table the call starts from, and what they do after it
\* is no longer its concern
KillUnderWay == kill.pc \notin { "idle", "done" }

\* a running process exits by itself
ProcExit(p) ==
    /\ KillUnderWay
    /\ proc[p].state = "running"
    /\ ~ proc[p].sleeper
    /\ proc' = Remove(p)
    /\ UNCHANGED << runVars, kill, ann >>

\* a running process spawns a child
ProcSpawn(p, q, sleeper) ==
    /\ KillUnderWay
    /\ proc[p].state = "running"
    /\ ~ proc[p].sleeper
    /\ proc[q].state = "free"
    /\ \A f \in Pids : proc[f].state = "free" => q <= f
    /\ proc' = [ proc EXCEPT ![q] =
                   [ state |-> "running", ppid |-> p, sleeper |-> sleeper ] ]
    /\ UNCHANGED << runVars, kill, ann >>

\* the kernel delivers SIGKILL: the process is gone
ProcDie(p) ==
    /\ proc[p].state = "killed"
    /\ proc' = Remove(p)
    /\ UNCHANGED << runVars, kill, ann >>

\* os.kill(pid, SIGKILL) on a process of the table
Signal(p) == [ proc EXCEPT ![p].state = "killed" ]

(***************************************************************************)
(* kill_proc_tree                                                          *)
(***************************************************************************)
\* line 111: psutil.Process(pid) raises NoSuchProcess for a pid that is not
\* in the process table
KillCall(pid, including_parent) ==
    /\ kill.pc = "idle"
    /\ kill' = IF InTable(pid)
                   THEN [ kill EXCEPT !.pc = "children", !.pid = pid,
                            !.including_parent = including_parent,
                            !.found = TRUE ]
                   ELSE [ kill EXCEPT !.pc = "done", !.pid = pid,
                            !.including_parent = including_parent,
                            !.result = "NoSuchProcess" ]
    /\ UNCHANGED << runVars, proc, ann >>

\* line 112: parent.children(recursive=True)
KillEnumerate(children) ==
    /\ kill.pc = "children"
    /\ children \in ListsOf(Descendants(kill.pid))
    /\ kill' = [ kill EXCEPT !.pc = "killing", !.children = children, !.idx = 1 ]
    /\ UNCHANGED << runVars, proc, ann >>

\* a loop that lists the descendants of each child again and kills them too
KillChildAndBelow ==
    /\ kill.pc = "killing"
    /\ kill.idx <= Len(kill.children)
    /\ InTable(kill.children[kill.idx])
    /\ proc' = [ p \in Pids |->
                   IF p \in Reach({ kill.children[kill.idx] })
                       THEN [ proc[p] EXCEPT !.state = "killed" ]
                       ELSE proc[p] ]
    /\ kill' = [ kill EXCEPT !.idx = @ + 1,
                             !.signalled = @ \cup Reach({ kill.children[kill.idx] }) ]
    /\ UNCHANGED << runVars, ann >>

\* lines 113-114: child.kill() on the next child of the list
KillChild ==
    /\ kill.pc = "killing"
    /\ kill.idx <= Len(kill.children)
    /\ InTable(kill.children[kill.idx])
    /\ proc' = Signal(kill.children[kill.idx])
    /\ kill' = [ kill EXCEPT !.idx = @ + 1,
                             !.signalled = @ \cup { kill.children[kill.idx] } ]
    /\ UNCHANGED << runVars, ann >>

\* lines 113-114: child.kill() raises NoSuchProcess when the child has gone
\* since it was listed; nothing catches it
KillChildGone ==
    /\ kill.pc = "killing"
    /\ kill.idx <= Len(kill.children)
    /\ ~ InTable(kill.children[kill.idx])
    /\ kill' = [ kill EXCEPT !.pc = "done", !.result = "NoSuchProcess" ]
    /\ UNCHANGED << runVars, proc, ann >>

\* the loop is over: psutil.wait_procs starts
KillLoopEnd ==
    /\ kill.pc = "killing"
    /\ kill.idx > Len(kill.children)
    /\ kill' = [ kill EXCEPT !.pc = "wait_procs" ]
    /\ UNCHANGED << runVars, proc, ann >>

\* a call that kills the parent whatever including_parent is
AfterWaitProcsAlways == [ kill EXCEPT !.pc = "kill_parent" ]

\* line 116: after wait_procs the parent is killed if asked for, else the
\* call returns
AfterWaitProcs ==
    [ kill EXCEPT !.pc = IF kill.including_parent THEN "kill_parent" ELSE "done",
                  !.result = IF kill.including_parent THEN @ ELSE "returned" ]

\* line 115: wait_procs(children, timeout=5) returns once all children have
\* gone; the lists (gone, still_alive) it returns are not read
WaitProcsReturn ==
    /\ kill.pc = "wait_procs"
    /\ \A c \in Range(kill.children) : ~ InTable(c)
    /\ kill' = AfterWaitProcs
    /\ UNCHANGED << runVars, proc, ann >>

\* line 115: the 5 seconds of wait_procs pass with a child still in the
\* table; wait_procs returns all the same and raises nothing
WaitProcsTimeout ==
    /\ kill.pc = "wait_procs"
    /\ \E c \in Range(kill.children) : InTable(c)
    /\ kill' = AfterWaitProcs
    /\ UNCHANGED << runVars, proc, ann >>

\* line 117: parent.kill()
KillParent ==
    /\ kill.pc = "kill_parent"
    /\ InTable(kill.pid)
    /\ proc' = Signal(kill.pid)
    /\ kill' = [ kill EXCEPT !.pc = "wait_parent",
                             !.signalled = @ \cup { kill.pid } ]
    /\ UNCHANGED << runVars, ann >>

\* line 117: parent.kill() raises NoSuchProcess when the parent has gone
KillParentGone ==
    /\ kill.pc = "kill_parent"
    /\ ~ InTable(kill.pid)
    /\ kill' = [ kill EXCEPT !.pc = "done", !.result = "NoSuchProcess" ]
    /\ UNCHANGED << runVars, proc, ann >>

\* line 118: parent.wait(5) returns once the parent has gone
WaitParentReturn ==
    /\ kill.pc = "wait_parent"
    /\ ~ InTable(kill.pid)
    /\ kill' = [ kill EXCEPT !.pc = "done", !.result = "returned" ]
    /\ UNCHANGED << runVars, proc, ann >>

\* line 118: the 5 seconds of parent.wait(5) pass with the parent still in
\* the table: it raises psutil.TimeoutExpired
WaitParentTimeout ==
    /\ kill.pc = "wait_parent"
    /\ InTable(kill.pid)
    /\ kill' = [ kill EXCEPT !.pc = "done", !.result = "TimeoutExpired" ]
    /\ UNCHANGED << runVars, proc, ann >>

KillStep ==
    \/ \E pid \in Pids, including_parent \in BOOLEAN : KillCall(pid, including_parent)
    \/ \E children \in ListsOf(Descendants(kill.pid)) : KillEnumerate(children)
    \/ KillChild
    \/ KillChildGone
    \/ KillLoopEnd
    \/ WaitProcsReturn
    \/ WaitProcsTimeout
    \/ KillParent
    \/ KillParentGone
    \/ WaitParentReturn
    \/ WaitParentTimeout

\* what the processes and the kernel do by themselves
ProcStep ==
    \/ \E p \in Pids : ProcExit(p)
    \/ \E p \in Pids, q \in Pids, sleeper \in BOOLEAN : ProcSpawn(p, q, sleeper)
    \/ \E p \in Pids : ProcDie(p)

\* the process tables a call may find.  Process 1 was started first; every
\* process is absent, gone or running, and a running process other than 1
\* was spawned by a running process with a smaller pid, so that the running
\* processes form one tree
ProcTables ==
    { t \in [ Pids -> [ state : { "free", "dead", "running" },
                        ppid : 0 .. MaxProcs, sleeper : BOOLEAN ] ] :
        \A p \in Pids :
            /\ t[p].state # "running" => ( t[p].ppid = 0 /\ ~ t[p].sleeper )
            /\ t[p].ppid # 0 => ( t[p].ppid < p /\ t[t[p].ppid].state = "running" )
            /\ ( t[p].state = "running" /\ p # 1 ) => t[p].ppid # 0
            /\ t[p].state = "free" =>
                  \A q \in Pids : q > p => t[q].state = "free" }

KillInit ==
    /\ RunInit
    /\ proc \in ProcTables
    /\ kill = NoKill
    /\ ann = NoAnn

KillNext == KillStep \/ ProcStep

KillSpec == KillInit /\ [][KillNext]_vars

\* the call keeps running, and the kernel delivers the signals sent
KillFairness ==
    /\ WF_vars(KillStep)
    /\ \A p \in Pids : WF_vars(ProcDie(p))

KillLive == KillSpec /\ KillFairness


(***************************************************************************)
(* Properties of run_command.                                              *)
(***************************************************************************)
Done(r) == pc[r] = "done"

HasReturned(r) == outcome[r].how = "returned"

HasRaised(r) == outcome[r].how = "raised"

\* the child of r ran out of time and was killed by subprocess.run
TimedOut(r) == child[r].state = "killed"

\* the child of r exited by itself with code c
ExitedWith(r, c) == child[r].state = "exited" /\ child[r].code = Some(c)

\* the bytes the child of r wrote to its combined stdout/stderr
Written(r) == ChildChunk(r, 0, child[r].nbytes)

\* out is the output of the child of r as run_command hands it back on a
\* failure: all of it when it fits MAX_OUTPUT_LENGTH, else starting with its
\* first MAX_OUTPUT_LENGTH bytes
IsOutputOf(out, r) ==
    IF child[r].nbytes <= MAX_OUTPUT_LENGTH
        THEN out = Written(r)
        ELSE /\ Len(out) >= MAX_OUTPUT_LENGTH
             /\ SubSeq(out, 1, MAX_OUTPUT_LENGTH)
                   = ChildChunk(r, 0, MAX_OUTPUT_LENGTH)

\* C1: in every CommandResult run_command returns, captured_output is present
\* exactly when return_output was requested or return_code is not 0.
C1_OutputPresentIff ==
    \A r \in Runs :
        HasReturned(r) =>
            ( (outcome[r].result.captured_output # None)
                <=> ( call[r].return_output \/ outcome[r].result.return_code # 0 ) )

C1_Witness ==
    \E r \in Runs :
        /\ HasReturned(r)
        /\ ~ call[r].return_output
        /\ outcome[r].result.return_code # 0
        /\ outcome[r].result.captured_output # None

\* C2: when the command runs out of time, run_command raises TimeoutExpired
\* if ignore_errors is false; if it is true it raises nothing and returns a
\* result with return_code -32768 and the partial output written so far (cut
\* at MAX_OUTPUT_LENGTH when longer).
C2_TimeoutOutcome ==
    \A r \in Runs :
        ( Done(r) /\ TimedOut(r) ) =>
            IF call[r].ignore_errors
                THEN /\ HasReturned(r)
                     /\ outcome[r].result.return_code = -32768
                     /\ outcome[r].result.captured_output # None
                     /\ IsOutputOf(outcome[r].result.captured_output[1], r)
                ELSE /\ HasRaised(r)
                     /\ outcome[r].error.kind = "TimeoutExpired"

C2_Witness ==
    \E r \in Runs :
        /\ Done(r) /\ TimedOut(r) /\ call[r].ignore_errors
        /\ child[r].nbytes > 0
        /\ outcome[r].result.return_code = -32768

\* C3: with ignore_errors true run_command never raises: every failure
\* (nonzero exit, timeout, OSError of the spawn) comes back as a CommandResult
\* with a nonzero or special return code.
C3_NeverRaisesWhenIgnoring ==
    \A r \in Runs :
        ( Done(r) /\ call[r].ignore_errors ) =>
            /\ HasReturned(r)
            /\ ( ~ ExitedWith(r, 0) => outcome[r].result.return_code # 0 )

\* C4: a command that exits 0 with return_output true gets back exactly the
\* bytes it wrote, whatever their number.
C4_SuccessOutputExact ==
    \A r \in Runs :
        ( Done(r) /\ ExitedWith(r, 0) /\ call[r].return_output ) =>
            /\ HasReturned(r)
            /\ outcome[r].result.captured_output = Some(Written(r))

C4_Witness ==
    \E r \in Runs :
        /\ Done(r) /\ ExitedWith(r, 0) /\ call[r].return_output
        /\ child[r].nbytes > MAX_OUTPUT_LENGTH
        /\ Len(outcome[r].result.captured_output[1]) = child[r].nbytes

\* the marker as the specification words it, without the leading newline
MarkerText == Tail(TRUNCATION_SUFFIX)

EndsWith(out, suffix) ==
    /\ Len(out) >= Len(suffix)
    /\ SubSeq(out, Len(out) - Len(suffix) + 1, Len(out)) = suffix

\* the output run_command hands back, in its result or on the error it raises
HandedBack(r) ==
    IF HasReturned(r) THEN outcome[r].result.captured_output
    ELSE IF HasRaised(r) THEN outcome[r].error.output
    ELSE None

\* the invocation ended on a failure path (nonzero exit or timeout)
FailurePath(r) == TimedOut(r) \/ ( \E c \in ExitCodes \ { 0 } : ExitedWith(r, c) )

\* C5 as claimed: whenever a command that wrote more than 8192 bytes gets
\* output handed back (success with return_output, nonzero exit, timeout),
\* that output is 8192 + len(marker) bytes long and ends with the marker.
C5_AlwaysTruncated ==
    \A r \in Runs :
        ( Done(r) /\ child[r].nbytes > MAX_OUTPUT_LENGTH /\ HandedBack(r) # None ) =>
            /\ Len(HandedBack(r)[1]) = MAX_OUTPUT_LENGTH + Len(MarkerText)
            /\ EndsWith(HandedBack(r)[1], MarkerText)

\* C5 amended: for a command that wrote more than 8192 bytes, the output
\* handed back on a failure path (nonzero exit, timeout; in the result or on
\* the error) is its first 8192 bytes, a newline and the marker, so its length
\* is 8192 + 1 + len(marker) and it ends with the marker; on success with
\* return_output the output is handed back whole, without any marker added.
C5_TruncatedOnFailureOnly ==
    \A r \in Runs :
        ( Done(r) /\ child[r].nbytes > MAX_OUTPUT_LENGTH /\ HandedBack(r) # None ) =>
            IF FailurePath(r)
                THEN /\ Len(HandedBack(r)[1])
                           = MAX_OUTPUT_LENGTH + 1 + Len(MarkerText)
                     /\ EndsWith(HandedBack(r)[1], MarkerText)
                     /\ HandedBack(r)[1][MAX_OUTPUT_LENGTH + 1] = 10
                     /\ SubSeq(HandedBack(r)[1], 1, MAX_OUTPUT_LENGTH)
                           = ChildChunk(r, 0, MAX_OUTPUT_LENGTH)
                ELSE /\ ExitedWith(r, 0)
                     /\ HandedBack(r)[1] = Written(r)

C5_Witness ==
    \E r \in Runs :
        /\ Done(r) /\ FailurePath(r) /\ HasRaised(r)
        /\ child[r].nbytes = MAX_OUTPUT_LENGTH + 1
        /\ Len(HandedBack(r)[1]) > child[r].nbytes

\* C6: with ignore_errors true a command that exits with a code c other than
\* 0 makes run_command return (not raise) a result holding the command as
\* given, return_code c and the output of the command (cut at
\* MAX_OUTPUT_LENGTH when longer).
C6_NonZeroExitReturned ==
    \A r \in Runs : \A c \in ExitCodes \ { 0 } :
        ( Done(r) /\ ExitedWith(r, c) /\ call[r].ignore_errors ) =>
            /\ HasReturned(r)
            /\ outcome[r].result.command = call[r].args
            /\ outcome[r].result.return_code = c
            /\ outcome[r].result.captured_output # None
            /\ IsOutputOf(outcome[r].result.captured_output[1], r)

C6_Witness ==
    \E r \in Runs :
        /\ Done(r) /\ ExitedWith(r, 3) /\ call[r].ignore_errors
        /\ child[r].nbytes > 0
        /\ HasReturned(r) /\ outcome[r].result.return_code = 3

\* C9: every invocation creates exactly one temporary file, and once the
\* invocation has ended, on whatever path, that file is closed and removed.
C9_TempFileScoped ==
    \A r \in Runs :
        /\ ( pc[r] = "idle" => FilesOf(r) = { } )
        /\ ( pc[r] # "idle" => FilesOf(r) = { tmpfile[r] } )
        /\ ( Done(r) => \A f \in FilesOf(r) : ~ files[f].open )
        /\ ( pc[r] \in { "opened", "running" } => files[tmpfile[r]].open )

C9_Witness ==
    \E r \in Runs :
        /\ Done(r) /\ HasRaised(r)
        /\ outcome[r].error.kind \in OSErrorKinds
        /\ Cardinality(FilesOf(r)) = 1
        /\ ~ files[tmpfile[r]].open

\* C10: a transient OSError of the spawn is retried: run_command raises it
\* only after STOP_AFTER_ATTEMPT spawn attempts have all failed.
C10_TransientRetried ==
    \A r \in Runs :
        ( Done(r) /\ HasRaised(r) /\ outcome[r].error.kind = "BlockingIOError" ) =>
            attempts[r] = STOP_AFTER_ATTEMPT

(***************************************************************************)
(* Properties of kill_proc_tree.                                           *)
(***************************************************************************)
KillDone == kill.pc = "done"

\* the processes of S and those spawned by them, by these, and so on
RECURSIVE Spawned(_)
Spawned(S) ==
    LET T == ( S \cap Pids ) \cup
               { q \in Pids : proc[q].state # "free" /\ proc[q].ppid \in S \cap Pids }
    IN  IF T = S THEN S ELSE Spawned(T)

\* the call is on a parent with descendants, and the parent and all these
\* descendants sleep: none exits or spawns by itself
SleepingTree ==
    /\ Cardinality(Spawned({ kill.pid })) > 1
    /\ \A p \in Spawned({ kill.pid }) : proc[p].state = "running" /\ proc[p].sleeper

\* C7 as claimed: kill_proc_tree(pid) on a pid whose process has already
\* exited returns normally, whatever including_parent is.
C7_ExitedPidReturns ==
    ( KillDone /\ ~ kill.found /\ proc[kill.pid].state = "dead" ) =>
        kill.result = "returned"

\* C8: once kill_proc_tree(parent, including_parent=True) has been called on
\* a sleeping parent with long-sleeping descendants, eventually neither the
\* parent nor any of these descendants is in the process table.
C8_TreeEventuallyGone ==
    ( kill.pc = "children" /\ kill.including_parent /\ SleepingTree )
        ~> ( \A p \in Spawned({ kill.pid }) : ~ InTable(p) )

C8_Witness ==
    /\ KillDone /\ kill.including_parent /\ kill.result = "returned"
    /\ Len(kill.children) = 2
    /\ proc[kill.pid].sleeper /\ proc[kill.pid].state = "dead"
    /\ \A c \in Range(kill.children) : proc[c].sleeper /\ proc[c].state = "dead"
    /\ Spawned({ kill.pid }) = { kill.pid } \cup Range(kill.children)

(***************************************************************************)
(* error_wrapper: an error is handed to it, and str() of what it returns.  *)
(***************************************************************************)
\* length of the longest output attached to an error handed to error_wrapper
MaxOutputLen == 2

\* bytes of these outputs: "\n", "h", a continuation byte, the lead bytes of
\* a two byte and of a three byte sequence, and a byte no UTF-8 text holds
SampleBytes == { 10, 104, 169, 195, 226, 255 }

Outputs == UNION { [ 1 .. n -> SampleBytes ] : n \in 0 .. MaxOutputLen }

\* the value of err.output: None, or bytes
OptOutputs == { None } \cup { Some(o) : o \in Outputs }

\* the errors handed to error_wrapper
Failures ==
    { [ CalledProcessError(c, k) EXCEPT !.output = o ] :
          c \in Commands, k \in ExitCodes \ { 0 }, o \in OptOutputs }
    \cup { [ TimeoutExpired(c) EXCEPT !.output = o ] :
               c \in Commands, o \in OptOutputs }
    \cup { OSErrorOf(kind, c) : kind \in OSErrorKinds, c \in Commands }

\* "\nFailed to parse output."
FAILED_NOTE ==
    << 10, 70, 97, 105, 108, 101, 100, 32, 116, 111, 32, 112, 97, 114, 115,
       101, 32, 111, 117, 116, 112, 117, 116, 46 >>

\* "\nCaptured output:\n"
CAPTURED_HEADER ==
    << 10, 67, 97, 112, 116, 117, 114, 101, 100, 32, 111, 117, 116, 112,
       117, 116, 58, 10 >>

\* "\nNo output was generated."
NO_OUTPUT_NOTE ==
    << 10, 78, 111, 32, 111, 117, 116, 112, 117, 116, 32, 119, 97, 115, 32,
       103, 101, 110, 101, 114, 97, 116, 101, 100, 46 >>

\* the four spaces put before each line of the output
LINE_PREFIX == << 32, 32, 32, 32 >>

\* bytes.decode('utf-8'): the number of bytes of the sequence a lead byte
\* starts, 0 for a byte that starts none
Utf8Length(b) ==
    IF b < 128 THEN 1
    ELSE IF b \in 194 .. 223 THEN 2
    ELSE IF b \in 224 .. 239 THEN 3
    ELSE IF b \in 240 .. 244 THEN 4
    ELSE 0

\* the second byte of a sequence: a continuation byte, of a narrower range
\* after the lead bytes that would encode an overlong form, a surrogate or
\* a code point above U+10FFFF
SecondByteOk(b1, b2) ==
    CASE b1 = 224 -> b2 \in 160 .. 191
      [] b1 = 237 -> b2 \in 128 .. 159
      [] b1 = 240 -> b2 \in 144 .. 191
      [] b1 = 244 -> b2 \in 128 .. 143
      [] OTHER    -> b2 \in 128 .. 191

\* s is one well formed UTF-8 sequence
WellFormed(s) ==
    /\ Len(s) = Utf8Length(s[1])
    /\ Len(s) > 1 => SecondByteOk(s[1], s[2])
    /\ \A i \in 3 .. Len(s) : s[i] \in 128 .. 191

\* the code point a well formed sequence encodes
CodePoint(s) ==
    CASE Len(s) = 1 -> s[1]
      [] Len(s) = 2 -> (s[1] % 32) * 64 + (s[2] % 64)
      [] Len(s) = 3 -> (s[1] % 16) * 4096 + (s[2] % 64) * 64 + (s[3] % 64)
      [] OTHER      -> (s[1] % 8) * 262144 + (s[2] % 64) * 4096
                          + (s[3] % 64) * 64 + (s[4] % 64)

\* the code points of a byte string, None if it is not valid UTF-8
RECURSIVE Utf8Decode(_)
Utf8Decode(bytes) ==
    IF bytes = << >> THEN Some(<< >>)
    ELSE LET n == Utf8Length(bytes[1])
         IN  IF n = 0 \/ n > Len(bytes) \/ ~ WellFormed(SubSeq(bytes, 1, n))
                 THEN None
                 ELSE LET rest == Utf8Decode(SubSeq(bytes, n + 1, Len(bytes)))
                      IN  IF rest = None
                              THEN None
                              ELSE Some(<< CodePoint(SubSeq(bytes, 1, n)) >>
                                            \o rest[1])

\* line 45: self.output.decode('utf-8') returns the text or raises
\* UnicodeDecodeError
Decode(bytes) ==
    LET text == Utf8Decode(bytes)
    IN  IF text = None
            THEN [ raised |-> Some("UnicodeDecodeError"), value |-> None ]
            ELSE [ raised |-> None, value |-> text ]

\* line 46: the exceptions the except clause of __str__ catches
CaughtByStr == { "UnicodeEncodeError" }

\* line 49: output.split('\n'), the lines of a text (one line at least)
RECURSIVE Split(_)
Split(text) ==
    IF \A i \in 1 .. Len(text) : text[i] # 10
        THEN << text >>
        ELSE LET i == CHOOSE j \in 1 .. Len(text) :
                          text[j] = 10 /\ \A k \in 1 .. j - 1 : text[k] # 10
             IN  << SubSeq(text, 1, i - 1) >>
                     \o Split(SubSeq(text, i + 1, Len(text)))

\* line 49: '\n'.join(lines)
RECURSIVE Join(_)
Join(lines) ==
    IF Len(lines) = 1
        THEN lines[1]
        ELSE lines[1] \o << 10 >> \o Join(Tail(lines))

\* line 49: every line of the text with four spaces before it
Indented(text) ==
    LET lines == Split(text)
    IN  Join([ i \in 1 .. Len(lines) |-> LINE_PREFIX \o lines[i] ])

\* line 42: super().__str__(), the text of the original exception class,
\* which depends on the class and on the fields other than the output
BaseStr(err) == << err.kind, err.cmd, err.returncode >>

\* str(err) returned the text made of base and of what __str__ added to it
Text(base, tail) ==
    [ raised |-> None, text |-> Some([ base |-> base, tail |-> tail ]) ]

\* str(err) raised an exception
Raises(exception) == [ raised |-> Some(exception), text |-> None ]

\* lines 41-52: the __str__ of the class error_wrapper gives to the error
StrOverride(err) ==
    IF err.output # None /\ err.output[1] # << >>
        THEN LET decoded == Decode(err.output[1])
             IN  IF decoded.raised # None
                     THEN IF decoded.raised[1] \in CaughtByStr
                              THEN Text(BaseStr(err), FAILED_NOTE)
                              ELSE Raises(decoded.raised[1])
                     ELSE Text(BaseStr(err),
                               CAPTURED_HEADER \o Indented(decoded.value[1]))
        ELSE Text(BaseStr(err), NO_OUTPUT_NOTE)

\* str(err): __str__ of the new class if error_wrapper replaced the class
Str(err) ==
    IF err.annotated THEN StrOverride(err) ELSE Text(BaseStr(err), << >>)

\* error_wrapper(err) is called
Annotate ==
    /\ ann.pc = "given"
    /\ ann' = [ ann EXCEPT !.pc = "annotated",
                           !.err = Some(error_wrapper(ann.given[1])) ]
    /\ UNCHANGED << runVars, killVars >>

\* str() is called on what error_wrapper returned
Render ==
    /\ ann.pc = "annotated"
    /\ ann' = [ ann EXCEPT !.pc = "rendered", !.str = Some(Str(ann.err[1])) ]
    /\ UNCHANGED << runVars, killVars >>

AnnInit ==
    /\ RunInit
    /\ proc = [ p \in Pids |-> NoProc ]
    /\ kill = NoKill
    /\ ann \in { [ NoAnn EXCEPT !.pc = "given", !.given = Some(e) ] :
                     e \in Failures }

AnnNext == Annotate \/ Render

AnnSpec == AnnInit /\ [][AnnNext]_vars

\* C11: the error error_wrapper returns has the kind, the command, the
\* return code and the output of the error it was given (a TimeoutExpired
\* stays one, a CalledProcessError stays one), and an error of any other
\* kind is returned as it was given.
C11_ClassificationPreserved ==
    ann.pc \in { "annotated", "rendered" } =>
        LET given == ann.given[1]
            err == ann.err[1]
        IN  /\ err.kind = given.kind
            /\ err.cmd = given.cmd
            /\ err.returncode = given.returncode
            /\ err.output = given.output
            /\ given.kind \notin WrappedKinds => err = given

C11_Witness ==
    /\ ann.pc = "annotated"
    /\ ann.given[1].kind = "TimeoutExpired"
    /\ ann.err[1].annotated
    /\ ann.err[1].kind = "TimeoutExpired"

\* C12 as claimed: str() of an annotated error never raises: text that is
\* valid UTF-8 gives the header and the indented lines, bytes that are not
\* valid UTF-8 give the note that parsing failed, an empty or absent output
\* gives the note that no output was generated.
C12_RenderNeverRaises ==
    ( ann.pc = "rendered" /\ ann.err[1].annotated ) =>
        LET output == ann.err[1].output
            str == ann.str[1]
            empty == output = None \/ output = Some(<< >>)
        IN  /\ str.raised = None
            /\ empty => str.text[1].tail = NO_OUTPUT_NOTE
            /\ ( ~ empty /\ Utf8Decode(output[1]) = None ) =>
                   str.text[1].tail = FAILED_NOTE
            /\ ( ~ empty /\ Utf8Decode(output[1]) # None ) =>
                   str.text[1].tail =
                       CAPTURED_HEADER \o Indented(Utf8Decode(output[1])[1])

(***************************************************************************)
(* Further properties of run_command.                                      *)
(***************************************************************************)
\* subprocess.run never started a child of r: the spawn failed
SpawnFailed(r) == Done(r) /\ child[r].state = "none"

\* C13: a CommandResult run_command returns has return_code -32768 exactly
\* when the command ran out of time; a command that exited, with whatever
\* code, never gives a result with return_code -32768.
C13_SentinelIffTimeout ==
    \A r \in Runs :
        HasReturned(r) =>
            /\ ( outcome[r].result.return_code = TIMEOUT_RETURN_CODE
                   <=> TimedOut(r) )
            /\ \A c \in ExitCodes :
                   ExitedWith(r, c) => outcome[r].result.return_code = c

C13_Witness ==
    \E r \in Runs :
        /\ HasReturned(r) /\ ExitedWith(r, -9)
        /\ outcome[r].result.return_code # TIMEOUT_RETURN_CODE

\* C19: a command that fails (nonzero exit or timeout) after writing at most
\* 8192 bytes, 8192 included, gets back exactly the bytes it wrote, in the
\* result or on the error; the output handed back ends with the truncation
\* text only if more than 8192 bytes were written.
C19_NoMarkerUpToLimit ==
    \A r \in Runs :
        ( Done(r) /\ FailurePath(r) ) =>
            /\ HandedBack(r) # None
            /\ child[r].nbytes <= MAX_OUTPUT_LENGTH =>
                   HandedBack(r)[1] = Written(r)
            /\ EndsWith(HandedBack(r)[1], MarkerText) =>
                   child[r].nbytes > MAX_OUTPUT_LENGTH

C19_Witness ==
    \E r \in Runs :
        /\ Done(r) /\ FailurePath(r)
        /\ child[r].nbytes = MAX_OUTPUT_LENGTH
        /\ Len(HandedBack(r)[1]) = MAX_OUTPUT_LENGTH

C14_RunsIsolated ==
    \A r \in Runs :
        /\ pc[r] # "idle" =>
               /\ tmpfile[r] \in 1 .. Len(files)
               /\ files[tmpfile[r]].owner = r
               /\ \A q \in Runs \ { r } : tmpfile[q] # tmpfile[r]
        /\ child[r].state # "none" => child[r].stdout = tmpfile[r]
        /\ pc[r] = "running" => files[tmpfile[r]].content = Written(r)
        /\ ( HasReturned(r) /\ outcome[r].result.captured_output # None ) =>
               IsOutputOf(outcome[r].result.captured_output[1], r)

\* an invocation returned the output of its child while the child of another
\* one, which had created its file before, was writing
C14_Witness ==
    \E r \in Runs, q \in Runs :
        /\ r # q
        /\ HasReturned(r) /\ child[r].nbytes > 1
        /\ outcome[r].result.captured_output = Some(Written(r))
        /\ pc[q] = "running" /\ child[q].nbytes > 0
        /\ tmpfile[q] < tmpfile[r]

(***************************************************************************)
(* Further properties of kill_proc_tree.                                   *)
(***************************************************************************)
\* c was listed by the call, has gone by itself and was not sent SIGKILL
ExitedUnsignalled(c) ==
    /\ c \in Range(kill.children)
    /\ proc[c].state = "dead"
    /\ c \notin kill.signalled

\* p was sent SIGKILL by the call or is no longer in the table
Handled(p) == p \in kill.signalled \/ ~ InTable(p)

\* C15 as claimed: when a listed descendant has gone by itself before the
\* call sent it SIGKILL, the call does not raise NoSuchProcess, and it has
\* sent SIGKILL to every other listed descendant still there and, with
\* including_parent, to the parent.
C15_ExitedDescendantHandled ==
    \A c \in Pids :
        ( KillDone /\ ExitedUnsignalled(c) ) =>
            /\ kill.result # "NoSuchProcess"
            /\ \A d \in Range(kill.children) : Handled(d)
            /\ kill.including_parent => Handled(kill.pid)

\* C16 as claimed: when a process the call sent SIGKILL is still in the
\* table at the end of the 5 seconds of its wait, the call leaves it there
\* and returns: it does not raise TimeoutExpired.
C16_StillAliveLeft ==
    \A p \in Pids :
        ( KillDone /\ p \in kill.signalled /\ InTable(p) ) =>
            kill.result # "TimeoutExpired"

\* C17: the parent is sent SIGKILL only if including_parent is true, and
\* then only once every listed descendant has been sent SIGKILL and
\* wait_procs has returned; with including_parent false the call never
\* sends SIGKILL to the parent.
C17_ParentLast ==
    /\ kill.pid \in kill.signalled =>
           /\ kill.including_parent
           /\ Range(kill.children) \subseteq kill.signalled
           /\ kill.pc \in { "wait_parent", "done" }
    /\ kill.pc \in { "children", "killing", "wait_procs", "kill_parent" } =>
           kill.pid \notin kill.signalled

C17_Witness ==
    /\ KillDone /\ kill.result = "returned"
    /\ kill.pid \in kill.signalled
    /\ Len(kill.children) > 0
    /\ \E c \in Range(kill.children) : InTable(c)

\* C18: the processes the call sends SIGKILL are among the descendants
\* listed by its one enumeration and the parent; a process spawned in the
\* tree after the enumeration is never sent SIGKILL by the call.
C18_SingleEnumeration ==
    kill.signalled \subseteq ( Range(kill.children) \cup { kill.pid } )

\* a process spawned by a listed descendant after the enumeration runs on
\* when the call has killed the listed descendants and the parent
C18_Witness ==
    /\ KillDone /\ kill.result = "returned"
    /\ kill.signalled = Range(kill.children) \cup { kill.pid }
    /\ \E q \in Pids \ kill.signalled :
           /\ proc[q].state = "running"
           /\ proc[q].ppid \in Range(kill.children)

=============================================================================
